---- MODULE Spec2Model ----
(***************************************************************************)
(* CodeKeeper (src/main.py): the path safety validator                     *)
(* (PathValidator), the project dialog that calls it                       *)
(* (CodeKeeperGUI.add_project_dialog.save_project) and the directory       *)
(* replication engine (BackupEngine.copy_directory) with its two callers   *)
(* (create_backup, deploy_to_runtime), over a small POSIX file system      *)
(* without symbolic links.                                                 *)
(*                                                                         *)
(* A path of the file system is the sequence of its names below "/"        *)
(* (<<>> is the root); Python strings are TLA+ strings, read character by  *)
(* character with Len, SubSeq and \o.                                      *)
(***************************************************************************)
EXTENDS Integers, Sequences, FiniteSets, TLC

VARIABLES
    system,             \* PathValidator.system: platform.system().lower()
    fsDirs,             \* the directories of the file system
    fsFiles,            \* the regular files: path -> content
    denied,             \* directories in which this user may create nothing
    vcall,              \* the last validate_path call and what it returned
    vbefore,            \* the directories as they were before that call
    project,            \* the project row save_project stored, or NoProject
    clock,              \* datetime.now(), in seconds
    runs,               \* copy_directory calls made so far
    pc,                 \* where the current copy_directory call stands
    operation_type,     \* "backup" or "runtime"
    timestamp,          \* copy_directory's timestamp string
    final_destination,  \* copy_directory's final_destination
    asked,              \* askyesno calls of the current run
    answer,             \* what askyesno returned in the current run
    total_files,        \* copy_directory's total_files
    copied_files,       \* copy_directory's copied_files
    stack,              \* os.walk: the directories still to be listed
    root,               \* os.walk: the directory being copied
    walked,             \* os.walk: the directories listed in the current run
    files_left,         \* the files of root not yet looked at
    copy_errors,        \* copies that failed for an I/O or permission error
    progress,           \* the progress_callback calls of the current run
    copies,             \* the shutil.copy2 calls of the current run
    outcome,            \* what the caller showed for the last run
    last_backup,        \* update_last_backup calls so far
    start,              \* the file system when the current run began
    history             \* the runs that ended: kind, timestamp, result, tree

vars ==
    <<system, fsDirs, fsFiles, denied, vcall, vbefore, project, clock, runs, pc,
      operation_type, timestamp, final_destination, asked, answer, total_files,
      copied_files, stack, root, walked, files_left, copy_errors, progress, copies,
      outcome, last_backup, start, history>>

validator_vars == <<vcall, vbefore>>

engine_vars ==
    <<clock, runs, pc, operation_type, timestamp, final_destination, asked, answer,
      total_files, copied_files, stack, root, walked, files_left, copy_errors,
      progress, copies, outcome, last_backup, start, history>>

(***************************************************************************)
(* Python str and pathlib, as far as the program uses them.                *)
(***************************************************************************)
RECURSIVE strip_left(_)
strip_left(s) ==
    IF Len(s) > 0 /\ SubSeq(s, 1, 1) = " " THEN strip_left(SubSeq(s, 2, Len(s))) ELSE s

RECURSIVE strip_right(_)
strip_right(s) ==
    IF Len(s) > 0 /\ SubSeq(s, Len(s), Len(s)) = " "
    THEN strip_right(SubSeq(s, 1, Len(s) - 1))
    ELSE s

strip(s) == strip_right(strip_left(s))

startswith(s, prefix) ==
    Len(prefix) <= Len(s) /\ SubSeq(s, 1, Len(prefix)) = prefix

endswith(s, suffix) ==
    Len(suffix) <= Len(s) /\ SubSeq(s, Len(s) - Len(suffix) + 1, Len(s)) = suffix

UpperChars == "ABCDEFGHIJKLMNOPQRSTUVWXYZ"
LowerChars == "abcdefghijklmnopqrstuvwxyz"

lower_char(c) ==
    IF \E i \in 1..Len(UpperChars) : SubSeq(UpperChars, i, i) = c
    THEN LET i == CHOOSE j \in 1..Len(UpperChars) : SubSeq(UpperChars, j, j) = c
         IN  SubSeq(LowerChars, i, i)
    ELSE c

RECURSIVE lower(_)
lower(s) ==
    IF Len(s) = 0 THEN s
    ELSE lower_char(SubSeq(s, 1, 1)) \o lower(SubSeq(s, 2, Len(s)))

RECURSIVE replace(_, _, _)
replace(s, old, new) ==
    IF Len(s) = 0 THEN s
    ELSE (IF SubSeq(s, 1, 1) = old THEN new ELSE SubSeq(s, 1, 1))
         \o replace(SubSeq(s, 2, Len(s)), old, new)

\* s.split(sep) for a one-character sep: the pieces between the separators.
RECURSIVE split_from(_, _, _)
split_from(s, sep, piece) ==
    IF Len(s) = 0 THEN <<piece>>
    ELSE IF SubSeq(s, 1, 1) = sep
         THEN <<piece>> \o split_from(SubSeq(s, 2, Len(s)), sep, "")
         ELSE split_from(SubSeq(s, 2, Len(s)), sep, piece \o SubSeq(s, 1, 1))

split(s, sep) == split_from(s, sep, "")

RECURSIVE join_names(_)
join_names(names) ==
    IF Len(names) = 0 THEN ""
    ELSE IF Len(names) = 1 THEN names[1]
    ELSE names[1] \o "/" \o join_names(Tail(names))

\* The working directory of the process.
Cwd == <<"home", "user">>

\* Path(s): whether s is anchored at "/" and its names; empty names and "."
\* are dropped by pathlib.
PurePath(s) ==
    [abs  |-> startswith(s, "/"),
     segs |-> SelectSeq(split(s, "/"), LAMBDA n : n # "" /\ n # ".")]

\* Path.parent: the path without its last name; the root and "." are their
\* own parents.
parent_of(p) ==
    [abs |-> p.abs,
     segs |-> IF Len(p.segs) = 0 THEN p.segs ELSE SubSeq(p.segs, 1, Len(p.segs) - 1)]

\* Path.name: the last name, "" for the root.
name_of(p) == IF Len(p.segs) = 0 THEN "" ELSE p.segs[Len(p.segs)]

\* Path.resolve(): absolute, ".." folded; the file system holds no symlinks.
RECURSIVE fold_dotdot(_, _)
fold_dotdot(done, rest) ==
    IF Len(rest) = 0 THEN done
    ELSE IF Head(rest) = ".."
         THEN fold_dotdot(IF Len(done) = 0 THEN done ELSE SubSeq(done, 1, Len(done) - 1),
                          Tail(rest))
         ELSE fold_dotdot(Append(done, Head(rest)), Tail(rest))

resolve(p) == fold_dotdot(<<>>, IF p.abs THEN p.segs ELSE Cwd \o p.segs)

\* Path.parts of a resolved path: the root "/" is the first part.
parts_of(r) == <<"/">> \o r

\* Path.as_posix() and str() of a resolved path.
as_posix(r) == "/" \o join_names(r)

(***************************************************************************)
(* The file system.                                                        *)
(***************************************************************************)
is_prefix(a, b) == Len(a) <= Len(b) /\ SubSeq(b, 1, Len(a)) = a

prefixes(r) == { SubSeq(r, 1, n) : n \in 0..Len(r) }

is_dir(dirs, r) == r \in dirs

is_file(files, r) == r \in DOMAIN files

\* os.path.exists / Path.exists
exists(dirs, files, r) == is_dir(dirs, r) \/ is_file(files, r)

\* The longest path the host accepts, in names (PATH_MAX): a call with a
\* longer one raises OSError. (Where os.walk is recursive, the interpreter's
\* recursion limit ends a descent of that depth the same way, by an
\* exception that leaves copy_directory.)
MaxPathNames == 7

\* mkdir(parents=True, exist_ok=True) / os.makedirs(exist_ok=True) of r:
\* whether it succeeds. It fails when the path is too long, when a name on
\* the way is a regular file or when the deepest existing directory refuses
\* new entries.
can_makedirs(dirs, files, no_write, r) ==
    /\ Len(r) <= MaxPathNames
    /\ \A q \in prefixes(r) : ~is_file(files, q)
    /\ \/ r \in dirs
       \/ LET have == { q \in prefixes(r) : q \in dirs }
              deepest == CHOOSE q \in have : \A o \in have : Len(o) <= Len(q)
          IN  deepest \notin no_write

makedirs(dirs, r) == dirs \cup prefixes(r)

(***************************************************************************)
(* PathValidator                                                           *)
(***************************************************************************)
\* setup_dangerous_paths: the table, by platform.system().lower().
dangerous_paths ==
    [sys \in {"windows", "linux", "darwin"} |->
        IF sys = "windows" THEN
            {"c:\\windows", "c:\\program files", "c:\\program files (x86)",
             "c:\\system32", "c:\\syswow64", "c:\\boot", "c:\\recovery",
             "c:\\$recycle.bin", "c:\\pagefile.sys", "c:\\hiberfil.sys",
             "c:\\programdata\\microsoft", "c:\\users\\all users",
             "c:\\system volume information"}
        ELSE IF sys = "linux" THEN
            {"/bin", "/sbin", "/usr/bin", "/usr/sbin", "/lib", "/lib64",
             "/etc", "/boot", "/sys", "/proc", "/dev", "/run", "/tmp",
             "/var/log", "/var/run", "/var/lib/dpkg", "/var/cache",
             "/usr/lib", "/usr/share", "/root"}
        ELSE
            {"/system", "/library", "/applications", "/usr/bin", "/usr/sbin",
             "/bin", "/sbin", "/etc", "/tmp", "/var", "/dev", "/private",
             "/volumes/macintosh hd/system"}]

\* Line 53, for every entry: dangerous_path.replace('\\', '/').lower()
dangerous_path_normalized ==
    [sys \in DOMAIN dangerous_paths |->
        { lower(replace(dangerous_path, "\\", "/")) : dangerous_path \in dangerous_paths[sys] }]

\* Line 50: self.dangerous_paths.get(self.system, [])
dangerous_list(sys) ==
    IF sys \in DOMAIN dangerous_path_normalized THEN dangerous_path_normalized[sys] ELSE {}

\* Line 54: one entry against the lower-cased path.
matches_entry(path_lower, entry) == startswith(path_lower, entry)

\* is_system_path: the lower-cased resolved path starts with an entry.
is_system_path(path) ==
    IF Len(path) = 0 THEN FALSE
    ELSE LET path_lower == lower(as_posix(resolve(PurePath(path))))
         IN  \E entry \in dangerous_list(system) : matches_entry(path_lower, entry)

\* is_root_drive
is_root_drive(path) ==
    LET resolved_path == as_posix(resolve(PurePath(path)))
    IN  IF system = "windows"
        THEN Len(resolved_path) <= 3 /\ endswith(resolved_path, ":\\")
        ELSE resolved_path = "/"

\* has_sufficient_depth with the comparison strict.
has_sufficient_depth_strict(path, min_depth) ==
    Len(parts_of(resolve(PurePath(path)))) > min_depth

\* has_sufficient_depth: the parts of the resolved path, the root included.
has_sufficient_depth(path, min_depth) ==
    Len(parts_of(resolve(PurePath(path)))) >= min_depth

\* The reasons validate_path returns (its messages, by name).
Reasons ==
    {"EmptyPath", "DangerousSystemPath", "RootDrive", "InsufficientDepth",
     "ParentCreateFailed", "TargetIsFile", "Ok"}

Verdict(ok, reason, dirs) == [ok |-> ok, reason |-> reason, dirs |-> dirs]

\* validate_path with the depth check moved before the root check.
validate_path_depth_first(dirs, files, path, path_type) ==
    IF Len(path) = 0 \/ Len(strip(path)) = 0
    THEN Verdict(FALSE, "EmptyPath", dirs)
    ELSE
    LET p        == strip(path)
        path_obj == PurePath(p)
        parent   == resolve(parent_of(path_obj))
        target   == resolve(path_obj)
    IN  IF is_system_path(p)
        THEN Verdict(FALSE, "DangerousSystemPath", dirs)
        ELSE IF path_type = "backup" /\ ~has_sufficient_depth(p, 3)
        THEN Verdict(FALSE, "InsufficientDepth", dirs)
        ELSE IF is_root_drive(p)
        THEN Verdict(FALSE, "RootDrive", dirs)
        ELSE IF ~exists(dirs, files, parent) /\ ~can_makedirs(dirs, files, denied, parent)
        THEN Verdict(FALSE, "ParentCreateFailed", dirs)
        ELSE
        LET made == IF exists(dirs, files, parent) THEN dirs ELSE makedirs(dirs, parent)
        IN  IF exists(made, files, target) /\ is_file(files, target)
            THEN Verdict(FALSE, "TargetIsFile", made)
            ELSE Verdict(TRUE, "Ok", made)

\* validate_path with parent.mkdir moved before the checks.
validate_path_mkdir_first(dirs, files, path, path_type) ==
    IF Len(path) = 0 \/ Len(strip(path)) = 0
    THEN Verdict(FALSE, "EmptyPath", dirs)
    ELSE
    LET p        == strip(path)
        path_obj == PurePath(p)
        parent   == resolve(parent_of(path_obj))
        target   == resolve(path_obj)
        able     == exists(dirs, files, parent) \/ can_makedirs(dirs, files, denied, parent)
        made     == IF exists(dirs, files, parent) \/ ~able THEN dirs
                    ELSE makedirs(dirs, parent)
    IN  IF is_system_path(p)
        THEN Verdict(FALSE, "DangerousSystemPath", made)
        ELSE IF is_root_drive(p)
        THEN Verdict(FALSE, "RootDrive", made)
        ELSE IF path_type = "backup" /\ ~has_sufficient_depth(p, 3)
        THEN Verdict(FALSE, "InsufficientDepth", made)
        ELSE IF ~able
        THEN Verdict(FALSE, "ParentCreateFailed", made)
        ELSE IF exists(made, files, target) /\ is_file(files, target)
        THEN Verdict(FALSE, "TargetIsFile", made)
        ELSE Verdict(TRUE, "Ok", made)

\* validate_path on the file system (dirs, files): the verdict, the reason
\* and the directories afterwards (parent.mkdir is its one effect).
validate_path(dirs, files, path, path_type) ==
    IF Len(path) = 0 \/ Len(strip(path)) = 0
    THEN Verdict(FALSE, "EmptyPath", dirs)
    ELSE
    LET p        == strip(path)
        path_obj == PurePath(p)
        parent   == resolve(parent_of(path_obj))
        target   == resolve(path_obj)
    IN  IF is_system_path(p)
        THEN Verdict(FALSE, "DangerousSystemPath", dirs)
        ELSE IF is_root_drive(p)
        THEN Verdict(FALSE, "RootDrive", dirs)
        ELSE IF path_type = "backup" /\ ~has_sufficient_depth(p, 3)
        THEN Verdict(FALSE, "InsufficientDepth", dirs)
        ELSE IF ~exists(dirs, files, parent) /\ ~can_makedirs(dirs, files, denied, parent)
        THEN Verdict(FALSE, "ParentCreateFailed", dirs)
        ELSE
        LET made == IF exists(dirs, files, parent) THEN dirs ELSE makedirs(dirs, parent)
        IN  IF exists(made, files, target) /\ is_file(files, target)
            THEN Verdict(FALSE, "TargetIsFile", made)
            ELSE Verdict(TRUE, "Ok", made)

\* suggest_safe_path
suggest_safe_path(path_type) ==
    IF path_type = "backup" THEN Cwd \o <<"CodeKeeper", "Backups">>
    ELSE IF path_type = "source" THEN Cwd \o <<"Development">>
    ELSE IF path_type = "runtime" THEN Cwd \o <<"Runtime">>
    ELSE Cwd \o <<"CodeKeeper">>

(***************************************************************************)
(* Bounds of the model.                                                    *)
(***************************************************************************)
\* copy_directory calls in one behaviour.
MaxRuns == 2

\* shutil.copy2 calls in one behaviour that fail for an I/O or permission
\* error the file system of the model does not explain.
MaxCopyErrors == 1

(***************************************************************************)
(* BackupEngine                                                            *)
(***************************************************************************)
range(seq) == { seq[i] : i \in 1..Len(seq) }

\* All the orders in which os.scandir may list the names of S.
orders(S) ==
    { seq \in [1..Cardinality(S) -> S] :
        \A i, j \in 1..Cardinality(S) : seq[i] = seq[j] => i = j }

under(r, q) == is_prefix(r, q)

children(paths, r) == { q \in paths : Len(q) = Len(r) + 1 /\ is_prefix(r, q) }

last_name(r) == IF Len(r) = 0 THEN "" ELSE r[Len(r)]

\* __init__: exclude_defaults
exclude_defaults ==
    {".git", "__pycache__", "node_modules", ".vs", ".vscode", "bin", "obj"}

\* parse_exclude_patterns
parse_exclude_patterns(exclude_string) ==
    IF Len(exclude_string) = 0 THEN exclude_defaults
    ELSE LET pieces   == split(exclude_string, ",")
             patterns == { strip(pieces[i]) :
                             i \in { j \in 1..Len(pieces) : Len(strip(pieces[j])) > 0 } }
         IN  patterns \cup exclude_defaults

\* should_exclude(path, exclude_patterns), path being os.path.join(root, name)
\* with root below the source as it was given: Path(path).parts are all the
\* names of that path, those of the source's own location included.
should_exclude(path, exclude_patterns) ==
    LET path_parts == parts_of(path)
        name       == last_name(path)
    IN  \E pattern \in exclude_patterns :
            IF pattern \in range(path_parts) \/ name = pattern THEN TRUE
            ELSE startswith(pattern, "*")
                 /\ endswith(name, SubSeq(pattern, 2, Len(pattern)))

\* datetime.now().strftime("%Y%m%d_%H%M%S"), the clock counting the seconds
\* of 1 January 2025 from midnight.
Digits == "0123456789"

two_digits(n) ==
    SubSeq(Digits, (n \div 10) + 1, (n \div 10) + 1) \o SubSeq(Digits, (n % 10) + 1, (n % 10) + 1)

strftime(now) ==
    "20250101_" \o two_digits((now \div 3600) % 24) \o two_digits((now \div 60) % 60)
                \o two_digits(now % 60)

\* destination_of without the versioned name of a backup.
destination_of_unversioned(op_type, source, destination, ts) ==
    IF op_type = "backup"
    THEN resolve(PurePath(destination)) \o << name_of(PurePath(source)) >>
    ELSE resolve(PurePath(destination))

\* copy_directory, lines 220-226: where the copy goes.
destination_of(op_type, source, destination, ts) ==
    IF op_type = "backup"
    THEN resolve(PurePath(destination))
            \o << name_of(PurePath(source)) \o "_" \o ts >>
    ELSE resolve(PurePath(destination))

\* has_entries without the os.listdir test.
has_entries_unchecked(dirs, files, r) == TRUE

\* os.listdir(r) is non-empty
has_entries(dirs, files, r) ==
    children(dirs, r) # {} \/ children(DOMAIN files, r) # {}

\* shutil.rmtree(r): the entries below r go first, r itself last; r stays
\* when its parent refuses the removal, and nothing goes when a directory
\* of the tree refuses it.
rmtree_ok(dirs, r) ==
    /\ r \in dirs
    /\ Len(r) > 0
    /\ \A q \in dirs : under(r, q) => q \notin denied
    /\ SubSeq(r, 1, Len(r) - 1) \notin denied

rmtree_dirs(dirs, r) ==
    IF r \notin dirs \/ Len(r) = 0 \/ \E q \in dirs : under(r, q) /\ q \in denied
    THEN dirs
    ELSE IF SubSeq(r, 1, Len(r) - 1) \in denied
         THEN { q \in dirs : ~under(r, q) \/ q = r }
         ELSE { q \in dirs : ~under(r, q) }

\* rmtree that leaves the regular files where they are.
rmtree_files_keep(dirs, files, r) == files

rmtree_files(dirs, files, r) ==
    IF r \notin dirs \/ Len(r) = 0 \/ \E q \in dirs : under(r, q) /\ q \in denied
    THEN files
    ELSE [ f \in { g \in DOMAIN files : ~under(r, g) } |-> files[f] ]

\* The pre-pass, line 244: sum of len(files) over os.walk(source), which
\* yields nothing when source is no directory.
count_files(dirs, files, source) ==
    IF source \notin dirs THEN 0
    ELSE Cardinality({ f \in DOMAIN files : under(source, f) })

\* Lines 250-251: dest_dir of a directory of the walk.
dest_dir_of(final, source, walk_root) ==
    final \o SubSeq(walk_root, Len(source) + 1, Len(walk_root))

\* What str(e) holds when an OS call fails on a path.
os_error(r) == "[Errno 13] Permission denied: '" \o as_posix(r) \o "'"

\* Line 238: the exception of a declined overwrite (its U-umlaut written Ue).
declined_error == "Deployment abgebrochen: Benutzer hat Ueberschreibung abgelehnt"

contains(s, sub) ==
    \E i \in 1..(Len(s) - Len(sub) + 1) : SubSeq(s, i, i + Len(sub) - 1) = sub

\* deploy_except looking for the word without lower-casing the message.
deploy_except_as_written(message) ==
    IF contains(message, "Abgebrochen") THEN "cancelled" ELSE "error"

\* deploy_thread, lines 573-579: the dialog shown for an exception.
deploy_except(message) ==
    IF contains(lower(message), "abgebrochen") THEN "cancelled" ELSE "error"

\* backup_thread, lines 541-544.
backup_except(message) == "error"

(***************************************************************************)
(* The initial state: a developer's home with two projects, a runtime      *)
(* directory in use, an empty one, and a store the user may not write to.  *)
(***************************************************************************)
Home == <<"home", "user">>

InitDirs ==
    { <<>>, <<"home">>, Home, <<"etc">>, <<"srv">>, <<"srv", "store">>,
      Home \o <<"proj">>, Home \o <<"proj", ".git">>,
      Home \o <<"proj", "node_modules">>, Home \o <<"proj", "b">>,
      Home \o <<"bin">>, Home \o <<"bin", "proj">>,
      Home \o <<"live">>, Home \o <<"empty">> }

InitFiles ==
    (Home \o <<"proj", "a.txt">>) :> "a"
    @@ (Home \o <<"proj", ".git", "x">>) :> "x"
    @@ (Home \o <<"proj", "node_modules", "y.js">>) :> "y"
    @@ (Home \o <<"proj", "b", "c.txt">>) :> "c"
    @@ (Home \o <<"bin", "proj", "m.txt">>) :> "m"
    @@ (Home \o <<"live", "old.txt">>) :> "old"
    @@ (Home \o <<"notes.txt">>) :> "n"

InitDenied == { <<"srv", "store">> }

\* The hosts the model runs on: POSIX systems with and without a denylist.
HostSystems == {"linux", "darwin", "freebsd"}

PathTypes == {"source", "backup", "runtime"}

NoFiles == [f \in {} |-> ""]

restrict(files, S) == [f \in S |-> files[f]]

tree_dirs(dirs, r) == { q \in dirs : under(r, q) }

tree_files(files, r) == restrict(files, { f \in DOMAIN files : under(r, f) })

NoCall == [path |-> "", path_type |-> "none", ok |-> FALSE, reason |-> "NotCalled"]

NoProject ==
    [registered |-> FALSE, source |-> "", backup |-> "", runtime |-> "", exclude |-> ""]

\* The state after construction, on the host `host`.
InitOn(host) ==
    /\ system = host
    /\ fsDirs = InitDirs
    /\ fsFiles = InitFiles
    /\ denied = InitDenied
    /\ vcall = NoCall
    /\ vbefore = InitDirs
    /\ project = NoProject
    /\ clock = 0
    /\ runs = 0
    /\ pc = "NotStarted"
    /\ operation_type = "none"
    /\ timestamp = ""
    /\ final_destination = <<>>
    /\ asked = 0
    /\ answer = "none"
    /\ total_files = 0
    /\ copied_files = 0
    /\ stack = <<>>
    /\ root = <<>>
    /\ walked = <<>>
    /\ files_left = <<>>
    /\ copy_errors = 0
    /\ progress = <<>>
    /\ copies = {}
    /\ outcome = "none"
    /\ last_backup = 0
    /\ start = [dirs |-> InitDirs, files |-> InitFiles]
    /\ history = <<>>

\* The application on a Linux host.
Init == InitOn("linux")

\* The validator on any of the hosts.
InitValidate == \E host \in HostSystems : InitOn(host)

(***************************************************************************)
(* Calls of the validator.                                                 *)
(***************************************************************************)
\* The paths handed to validate_path.
CandidatePaths ==
    {"", "  ", "/", "/etc/foo", "/ETC/foo", "/etcetera/x", "/rootfs/x", "/root/x",
     "/home", " /home/user/a ", "/home/user/a", "/home/user/notes.txt",
     "/home/user/notes.txt/x", "/home/user/notes.txt/x/y",
     "/home/user/new/deep/x", "/srv/store/new/x",
     "work/x", "/home/user"}

Called(path, path_type, v) ==
    [path |-> path, path_type |-> path_type, ok |-> v.ok, reason |-> v.reason]

\* One call of PathValidator.validate_path.
ValidatePath(path, path_type) ==
    LET v == validate_path(fsDirs, fsFiles, path, path_type)
    IN  /\ vcall' = Called(path, path_type, v)
        /\ vbefore' = fsDirs
        /\ fsDirs' = v.dirs
        /\ UNCHANGED <<system, fsFiles, denied, project>>
        /\ UNCHANGED engine_vars

NextValidate ==
    \E path \in CandidatePaths, path_type \in PathTypes : ValidatePath(path, path_type)

SpecValidate == InitValidate /\ [][NextValidate]_vars

(***************************************************************************)
(* The project dialog.                                                     *)
(***************************************************************************)
\* What the user may type into the dialog's fields.
SourceInputs == {"/home/user/proj", "/home/user/bin/proj", "/home/user/gone"}

BackupInputs ==
    {"/home/user/bk/ck", "/srv/store/ck", "/home/user/proj/bk", "/home"}

RuntimeInputs ==
    {"", "/home/user/live", "/home/user/rt", "/home/user/empty", "/home/user/proj",
     "/home/user", "/home/user/proj/out", "/home/user/proj/b/out"}

ExcludeInputs == {"", " *.md,, b "}

\* save_project, lines 446-458: the backup path is the source path, or one
\* lies inside the other.
nested(source_var, backup_var) ==
    LET source_path == resolve(PurePath(source_var))
        backup_path == resolve(PurePath(backup_var))
    IN  \/ source_path = backup_path
        \/ is_prefix(source_path, backup_path)
        \/ is_prefix(backup_path, source_path)

\* save_project: the three validations in order, each with its mkdir, then
\* the nesting check, then add_project.
save_project(source_var, backup_var, runtime_var, exclude_text) ==
    /\ ~project.registered
    /\ pc = "NotStarted"
    /\ Len(source_var) > 0
    /\ Len(backup_var) > 0
    /\ LET vs == validate_path(fsDirs, fsFiles, source_var, "source")
           vb == validate_path(vs.dirs, fsFiles, backup_var, "backup")
           vr == validate_path(vb.dirs, fsFiles, runtime_var, "runtime")
           has_runtime == Len(strip(runtime_var)) > 0
       IN  IF ~vs.ok
           THEN /\ fsDirs' = vs.dirs
                /\ vcall' = Called(source_var, "source", vs)
                /\ UNCHANGED project
           ELSE IF ~vb.ok
           THEN /\ fsDirs' = vb.dirs
                /\ vcall' = Called(backup_var, "backup", vb)
                /\ UNCHANGED project
           ELSE IF has_runtime /\ ~vr.ok
           THEN /\ fsDirs' = vr.dirs
                /\ vcall' = Called(runtime_var, "runtime", vr)
                /\ UNCHANGED project
           ELSE /\ fsDirs' = IF has_runtime THEN vr.dirs ELSE vb.dirs
                /\ vcall' = IF has_runtime THEN Called(runtime_var, "runtime", vr)
                            ELSE Called(backup_var, "backup", vb)
                /\ project' = IF nested(source_var, backup_var) THEN project
                              ELSE [registered |-> TRUE, source |-> source_var,
                                    backup |-> backup_var, runtime |-> runtime_var,
                                    exclude |-> strip(exclude_text)]
    /\ vbefore' = fsDirs
    /\ UNCHANGED <<system, fsFiles, denied>>
    /\ UNCHANGED engine_vars

(***************************************************************************)
(* copy_directory and its callers, step by step.                           *)
(***************************************************************************)
Idle == {"NotStarted", "Completed", "Failed", "Cancelled"}

Source == resolve(PurePath(project.source))

Patterns == parse_exclude_patterns(project.exclude)

\* The caller's end of a run: backup_thread lines 534-544, deploy_thread
\* lines 569-579.
end_run(kind, ts, final, result, message, dirs, files) ==
    /\ pc' = result
    /\ outcome' = IF result = "Completed" THEN "success"
                  ELSE IF kind = "backup" THEN backup_except(message)
                  ELSE deploy_except(message)
    /\ last_backup' = IF result = "Completed" /\ kind = "backup"
                      THEN last_backup + 1 ELSE last_backup
    /\ history' = Append(history,
                    [kind |-> kind, timestamp |-> ts, final |-> final, result |-> result,
                     dirs |-> tree_dirs(dirs, final), files |-> tree_files(files, final)])

\* Lines 218-226 and 242: the call begins; os.makedirs(final_destination).
enter(kind, destination, now) ==
    LET ts    == strftime(now)
        final == destination_of(kind, project.source, destination, ts)
    IN  /\ clock' = now
        /\ runs' = runs + 1
        /\ operation_type' = kind
        /\ timestamp' = ts
        /\ final_destination' = final
        /\ total_files' = 0
        /\ copied_files' = 0
        /\ stack' = <<>>
        /\ root' = <<>>
        /\ walked' = <<>>
        /\ files_left' = <<>>
        /\ progress' = <<>>
        /\ copies' = {}
        /\ answer' = "none"
        /\ start' = [dirs |-> fsDirs, files |-> fsFiles]
        /\ UNCHANGED <<system, fsFiles, denied, validator_vars, project, copy_errors>>

\* create_backup -> copy_directory(..., "backup")
create_backup ==
    /\ project.registered
    /\ pc \in Idle
    /\ runs < MaxRuns
    /\ \E tick \in 0..1 :
        LET now   == clock + tick
            final == destination_of("backup", project.source, project.backup, strftime(now))
        IN  /\ enter("backup", project.backup, now)
            /\ asked' = 0
            /\ IF can_makedirs(fsDirs, fsFiles, denied, final)
               THEN /\ fsDirs' = makedirs(fsDirs, final)
                    /\ pc' = "Scanning"
                    /\ UNCHANGED <<outcome, last_backup, history>>
               ELSE /\ UNCHANGED fsDirs
                    /\ end_run("backup", strftime(now), final, "Failed", os_error(final),
                               fsDirs, fsFiles)

\* deploy_to_runtime -> copy_directory(..., "runtime"), up to the question
\* of line 230 when the destination holds something.
deploy_to_runtime ==
    /\ project.registered
    /\ Len(project.runtime) > 0
    /\ pc \in Idle
    /\ runs < MaxRuns
    /\ \E tick \in 0..1 :
        LET now   == clock + tick
            final == destination_of("runtime", project.source, project.runtime, strftime(now))
        IN  /\ enter("runtime", project.runtime, now)
            /\ IF is_file(fsFiles, final)
               THEN /\ asked' = 0
                    /\ UNCHANGED fsDirs
                    /\ end_run("runtime", strftime(now), final, "Failed", os_error(final),
                               fsDirs, fsFiles)
               ELSE IF exists(fsDirs, fsFiles, final) /\ has_entries(fsDirs, fsFiles, final)
               THEN /\ asked' = 1
                    /\ pc' = "AwaitingConfirmation"
                    /\ UNCHANGED <<fsDirs, outcome, last_backup, history>>
               ELSE IF can_makedirs(fsDirs, fsFiles, denied, final)
               THEN /\ asked' = 0
                    /\ fsDirs' = makedirs(fsDirs, final)
                    /\ pc' = "Scanning"
                    /\ UNCHANGED <<outcome, last_backup, history>>
               ELSE /\ asked' = 0
                    /\ UNCHANGED fsDirs
                    /\ end_run("runtime", strftime(now), final, "Failed", os_error(final),
                               fsDirs, fsFiles)

\* Lines 230-242: the user's answer; no raises, yes removes the destination
\* tree and makes the destination anew.
askyesno(result) ==
    /\ pc = "AwaitingConfirmation"
    /\ LET destination == final_destination
           dirs1  == rmtree_dirs(fsDirs, destination)
           files1 == rmtree_files(fsDirs, fsFiles, destination)
       IN  IF ~result
           THEN /\ UNCHANGED <<fsDirs, fsFiles>>
                /\ end_run(operation_type, timestamp, final_destination, "Cancelled",
                           declined_error, fsDirs, fsFiles)
           ELSE IF ~rmtree_ok(fsDirs, destination)
           THEN /\ fsDirs' = dirs1
                /\ fsFiles' = files1
                /\ end_run(operation_type, timestamp, final_destination, "Failed",
                           os_error(destination), dirs1, files1)
           ELSE IF ~can_makedirs(dirs1, files1, denied, final_destination)
           THEN /\ fsDirs' = dirs1
                /\ fsFiles' = files1
                /\ end_run(operation_type, timestamp, final_destination, "Failed",
                           os_error(final_destination), dirs1, files1)
           ELSE /\ fsDirs' = makedirs(dirs1, final_destination)
                /\ fsFiles' = files1
                /\ pc' = "Scanning"
                /\ UNCHANGED <<outcome, last_backup, history>>
    /\ answer' = IF result THEN "yes" ELSE "no"
    /\ UNCHANGED <<system, denied, validator_vars, project, clock, runs, operation_type,
                   timestamp, final_destination, asked, total_files, copied_files,
                   stack, root, walked, files_left, copy_errors, progress, copies,
                   start>>

\* Lines 244-245: the pre-pass; then os.walk(source) starts at the source.
scan ==
    /\ pc = "Scanning"
    /\ total_files' = count_files(fsDirs, fsFiles, Source)
    /\ copied_files' = 0
    /\ stack' = <<Source>>
    /\ pc' = "Copying"
    /\ UNCHANGED <<system, fsDirs, fsFiles, denied, validator_vars, project, clock, runs,
                   operation_type, timestamp, final_destination, asked, answer, root,
                   walked, files_left, copy_errors, progress, copies, outcome,
                   last_backup, start, history>>

\* os.walk, top down: the subdirectories just listed go before the
\* directories still to be listed.
walk_next(rest, listed) == listed \o rest

\* Lines 247-254: os.walk lists the next directory (one it cannot list is
\* passed over), the excluded subdirectories are pruned, dest_dir is made.
walk_dir ==
    /\ pc = "Copying"
    /\ files_left = <<>>
    /\ stack # <<>>
    /\ LET top      == Head(stack)
           dirs     == { d \in children(fsDirs, top) : ~should_exclude(d, Patterns) }
           files    == children(DOMAIN fsFiles, top)
           dest_dir == dest_dir_of(final_destination, Source, top)
       IN  IF top \notin fsDirs
           THEN /\ stack' = Tail(stack)
                /\ UNCHANGED <<fsDirs, root, walked, files_left, pc, outcome, last_backup,
                               history>>
           ELSE IF ~exists(fsDirs, fsFiles, dest_dir)
                   /\ ~can_makedirs(fsDirs, fsFiles, denied, dest_dir)
           THEN /\ UNCHANGED <<fsDirs, root, files_left, stack>>
                /\ walked' = Append(walked, top)
                /\ end_run(operation_type, timestamp, final_destination, "Failed",
                           os_error(dest_dir), fsDirs, fsFiles)
           ELSE \E dir_order \in orders(dirs), file_order \in orders(files) :
                /\ fsDirs' = IF exists(fsDirs, fsFiles, dest_dir) THEN fsDirs
                             ELSE makedirs(fsDirs, dest_dir)
                /\ root' = top
                /\ walked' = Append(walked, top)
                /\ files_left' = file_order
                /\ stack' = walk_next(Tail(stack), dir_order)
                /\ UNCHANGED <<pc, outcome, last_backup, history>>
    /\ UNCHANGED <<system, fsFiles, denied, validator_vars, project, clock, runs,
                   operation_type, timestamp, final_destination, asked, answer,
                   total_files, copied_files, copy_errors, progress, copies, start>>

\* shutil.copy2(source_file, dest_file): where the copy lands (inside
\* dest_file when that is a directory), and whether the file system lets it.
copy_target(dirs, dest_file) ==
    IF dest_file \in dirs THEN Append(dest_file, last_name(dest_file)) ELSE dest_file

can_copy(dirs, files, source_file, dest_file) ==
    LET target == copy_target(dirs, dest_file)
        into   == SubSeq(target, 1, Len(target) - 1)
    IN  /\ source_file \in DOMAIN files
        /\ Len(target) <= MaxPathNames
        /\ target # source_file
        /\ target \notin dirs
        /\ into \in dirs
        /\ (target \in DOMAIN files \/ into \notin denied)

\* count_after with the increment moved out of the try block.
count_after_always(count, copied) == count + 1

\* Lines 261-262: copied_files after a copy2 call that did or did not raise.
count_after(count, copied) == IF copied THEN count + 1 ELSE count

\* Lines 256-266: the next file of root; an excluded one is passed over,
\* another one is copied, and a copy that fails is only printed.
copy_file ==
    /\ pc = "Copying"
    /\ files_left # <<>>
    /\ LET source_file == Head(files_left)
           dest_dir    == dest_dir_of(final_destination, Source, root)
           dest_file   == Append(dest_dir, last_name(source_file))
           target      == copy_target(fsDirs, dest_file)
           able        == can_copy(fsDirs, fsFiles, source_file, dest_file)
       IN  IF should_exclude(source_file, Patterns)
           THEN UNCHANGED <<fsFiles, copied_files, progress, copies, copy_errors>>
           ELSE \E copied \in (IF ~able THEN {FALSE}
                               ELSE IF copy_errors < MaxCopyErrors THEN {TRUE, FALSE}
                               ELSE {TRUE}) :
                /\ copies' = copies \cup
                        {[source |-> source_file, target |-> target, copied |-> copied]}
                /\ copy_errors' = IF able /\ ~copied THEN copy_errors + 1 ELSE copy_errors
                /\ copied_files' = count_after(copied_files, copied)
                /\ IF copied
                   THEN /\ fsFiles' = (target :> fsFiles[source_file]) @@ fsFiles
                        /\ progress' = Append(progress, <<copied_files', total_files>>)
                   ELSE UNCHANGED <<fsFiles, progress>>
    /\ files_left' = Tail(files_left)
    /\ UNCHANGED <<system, fsDirs, denied, validator_vars, project, clock, runs, pc,
                   operation_type, timestamp, final_destination, asked, answer,
                   total_files, stack, root, walked, outcome, last_backup, start,
                   history>>

\* Line 268: the walk is over; copy_directory returns to its caller.
finish ==
    /\ pc = "Copying"
    /\ files_left = <<>>
    /\ stack = <<>>
    /\ end_run(operation_type, timestamp, final_destination, "Completed", "",
               fsDirs, fsFiles)
    /\ UNCHANGED <<system, fsDirs, fsFiles, denied, validator_vars, project, clock, runs,
                   operation_type, timestamp, final_destination, asked, answer,
                   total_files, copied_files, stack, root, walked, files_left,
                   copy_errors, progress, copies, start>>

Next ==
    \/ \E source_var \in SourceInputs, backup_var \in BackupInputs,
          runtime_var \in RuntimeInputs, exclude_text \in ExcludeInputs :
            save_project(source_var, backup_var, runtime_var, exclude_text)
    \/ create_backup
    \/ deploy_to_runtime
    \/ \E result \in BOOLEAN : askyesno(result)
    \/ scan
    \/ walk_dir
    \/ copy_file
    \/ finish

Spec == Init /\ [][Next]_vars

(***************************************************************************)
(* The claims about validate_path, on the last call (vcall) and the        *)
(* directories it found (vbefore).                                         *)
(***************************************************************************)
CallPath == strip(vcall.path)

CallParent == resolve(parent_of(PurePath(CallPath)))

CallTarget == resolve(PurePath(CallPath))

CheckOrder ==
    <<"EmptyPath", "DangerousSystemPath", "RootDrive", "InsufficientDepth",
      "ParentCreateFailed", "TargetIsFile">>

\* Whether the k-th check of the order fails for the last call, each taken
\* by itself on the file system the call found.
CheckFails(k) ==
    IF k = 1 THEN Len(vcall.path) = 0 \/ Len(CallPath) = 0
    ELSE IF k = 2 THEN is_system_path(CallPath)
    ELSE IF k = 3 THEN is_root_drive(CallPath)
    ELSE IF k = 4 THEN vcall.path_type = "backup" /\ Len(CallTarget) + 1 < 3
    ELSE IF k = 5 THEN /\ ~exists(vbefore, fsFiles, CallParent)
                       /\ ~can_makedirs(vbefore, fsFiles, denied, CallParent)
    ELSE is_file(fsFiles, CallTarget)

Failing == { k \in 1..6 : CheckFails(k) }

FirstFailing == CHOOSE k \in Failing : \A other \in Failing : k <= other

\* C1: validate_path returns the reason of the first check that fails in
\* the order EmptyPath, DangerousSystemPath, RootDrive, InsufficientDepth
\* (backup only), ParentCreateFailed, TargetIsFile, and (True, Ok) exactly
\* when none fails; when one of the first four fails, the parent directory
\* of the later steps is not made.
C1_ChecksInOrder ==
    vcall.path_type # "none" =>
        IF Failing = {}
        THEN vcall.ok /\ vcall.reason = "Ok"
        ELSE /\ ~vcall.ok
             /\ vcall.reason = CheckOrder[FirstFailing]
             /\ (FirstFailing <= 5 => fsDirs = vbefore)

\* C1 witness: "/" as a backup path fails the root check and the depth
\* check, and the earlier one is reported.
C1_Witness ==
    /\ vcall.path = "/"
    /\ vcall.path_type = "backup"
    /\ {3, 4} \subseteq Failing
    /\ vcall.reason = "RootDrive"

\* C2 as amended: InsufficientDepth is returned only for a backup path and
\* exactly when the resolved path has fewer than 3 parts, the root being
\* one of them: /home is refused as a backup path and accepted as a source
\* path, and /home/user/a, with 4 parts, is accepted for every role.
C2_DepthCountsRoot ==
    vcall.path_type # "none" =>
        /\ (vcall.reason = "InsufficientDepth"
                => vcall.path_type = "backup" /\ Len(CallTarget) < 2)
        /\ (vcall.path_type = "backup"
            /\ vcall.reason \in {"ParentCreateFailed", "TargetIsFile", "Ok"}
                => Len(CallTarget) >= 2)
        /\ (vcall.path = "/home" /\ vcall.path_type = "backup"
                => ~vcall.ok /\ vcall.reason = "InsufficientDepth")
        /\ (vcall.path = "/home" /\ vcall.path_type # "backup"
                => vcall.ok /\ vcall.reason = "Ok")
        /\ (vcall.path = "/home/user/a" => vcall.ok /\ vcall.reason = "Ok")

\* C2 witness: /home validated as a backup path.
C2_Witness ==
    /\ vcall.path = "/home"
    /\ vcall.path_type = "backup"
    /\ vcall.reason = "InsufficientDepth"

\* C2 as the spec states it: /home/user/a is refused as a backup path for
\* its depth and accepted as a source path, and the other roles never get
\* InsufficientDepth.
C2_Original ==
    /\ (vcall.path = "/home/user/a" /\ vcall.path_type = "backup"
            => ~vcall.ok /\ vcall.reason = "InsufficientDepth")
    /\ (vcall.path = "/home/user/a" /\ vcall.path_type = "source"
            => vcall.ok /\ vcall.reason = "Ok")
    /\ (vcall.path_type \in {"source", "runtime"} => vcall.reason # "InsufficientDepth")

\* The directories the last call made.
MadeByCall == fsDirs \ vbefore

EntryNames(entry) == resolve(PurePath(entry))

CallNamesLower == resolve(PurePath(lower(as_posix(CallTarget))))

\* The last call's path is a directory of the host's denylist or lies
\* beneath one, name by name.
AtOrBelowEntry ==
    \E entry \in dangerous_list(system) : is_prefix(EntryNames(entry), CallNamesLower)

\* C14 as the spec states it: on a host with a denylist validate_path
\* returns DangerousSystemPath exactly for a path that is a denylist
\* directory or lies beneath one, for every role; a path that only begins
\* with the characters of an entry (/rootfs/x, /etcetera/x) does not get it.
C14_Original ==
    (vcall.path_type # "none" /\ system \in DOMAIN dangerous_paths /\ Len(CallPath) > 0) =>
        (vcall.reason = "DangerousSystemPath" <=> AtOrBelowEntry)

(***************************************************************************)
(* The claims about copy_directory.                                        *)
(***************************************************************************)
\* The entries below r, r itself left out.
Below(dirs, files, r) == { q \in dirs \cup DOMAIN files : under(r, q) /\ q # r }

\* The targets the current run has written.
Written == { c.target : c \in { d \in copies : d.copied } }

\* Some directory on the way from the source to f, or f itself, is excluded.
Pruned(f) ==
    \E n \in (Len(Source) + 1)..Len(f) : should_exclude(SubSeq(f, 1, n), Patterns)

C4_State ==
    /\ asked <= 1
    /\ (asked = 1 =>
            /\ operation_type = "runtime"
            /\ final_destination \in start.dirs
            /\ Below(start.dirs, start.files, final_destination) # {})
    /\ (answer # "none" => asked = 1)
    /\ (operation_type = "backup" => asked = 0)
    /\ (pc = "AwaitingConfirmation" =>
            /\ asked = 1
            /\ answer = "none"
            /\ fsDirs = start.dirs
            /\ fsFiles = start.files
            /\ copies = {}
            /\ progress = <<>>
            /\ total_files = 0)

C4_Step ==
    pc \in {"Scanning", "Copying"} =>
        /\ pc' \in {"Scanning", "Copying", "Completed", "Failed"}
        /\ asked' = asked
        /\ answer' = answer

\* C4: askyesno is called at most once in a run, only in a runtime run
\* whose destination existed with entries when the run began, and while
\* the answer is awaited nothing has been changed, counted or copied; from
\* Scanning and Copying no step leads to AwaitingConfirmation or Cancelled
\* and none asks again.
C4_AskedOnceBeforeCopying == []C4_State /\ [][C4_Step]_vars

\* C4 witness: a confirmed runtime run that is copying files.
C4_Witness ==
    /\ pc = "Copying"
    /\ asked = 1
    /\ copied_files > 0

\* C5: after a yes, the destination is empty when the pre-pass begins, and
\* from then on every file below it was written by a copy of this run.
C5_ConfirmedOverwriteClears ==
    answer = "yes" =>
        /\ (pc = "Scanning" => Below(fsDirs, fsFiles, final_destination) = {})
        /\ (pc \in {"Copying", "Completed"} =>
                \A f \in DOMAIN fsFiles : under(final_destination, f) => f \in Written)

\* C5 witness: a confirmed run completed with copies, and a file the
\* destination held before is gone.
C5_Witness ==
    /\ answer = "yes"
    /\ pc = "Completed"
    /\ copied_files > 0
    /\ \E f \in DOMAIN start.files : under(final_destination, f) /\ f \notin DOMAIN fsFiles

\* C6 as the spec states it: a completed backup with the default exclusions
\* and no failed copy has copied exactly the files whose path below the
\* source root holds no excluded name, counts them, and has put them into
\* <destination>/<sourceName>_<timestamp>, a directory no earlier entry
\* of the file system was in (unless an earlier run of the same second made it).
C6_Original ==
    (/\ pc = "Completed"
     /\ operation_type = "backup"
     /\ project.exclude = ""
     /\ \A c \in copies : c.copied) =>
        LET eligible ==
                { f \in DOMAIN start.files :
                    /\ under(Source, f)
                    /\ \A n \in (Len(Source) + 1)..Len(f) : f[n] \notin exclude_defaults }
        IN  /\ { c.source : c \in copies } = eligible
            /\ copied_files = Cardinality(eligible)
            /\ final_destination =
                  Append(resolve(PurePath(project.backup)),
                         name_of(PurePath(project.source)) \o "_" \o timestamp)
            /\ (final_destination \in start.dirs =>
                    \E i \in 1..Len(history) - 1 : history[i].final = final_destination)

C7_State ==
    (/\ pc = "Completed"
     /\ Len(history) >= 2
     /\ operation_type = "backup"
     /\ history[Len(history) - 1].kind = "backup"
     /\ history[Len(history) - 1].result = "Completed"
     /\ history[Len(history) - 1].timestamp # timestamp) =>
        LET earlier == history[Len(history) - 1]
        IN  /\ earlier.final # final_destination
            /\ earlier.final \in fsDirs
            /\ final_destination \in fsDirs
            /\ tree_dirs(fsDirs, earlier.final) = earlier.dirs
            /\ tree_files(fsFiles, earlier.final) = earlier.files

C7_Step ==
    operation_type' = "backup" =>
        \A i \in 1..Len(history) :
            (/\ history[i].kind = "backup"
             /\ history[i].result = "Completed"
             /\ history[i].timestamp # timestamp') =>
                /\ final_destination' # history[i].final
                /\ tree_dirs(fsDirs', history[i].final) = tree_dirs(fsDirs, history[i].final)
                /\ tree_files(fsFiles', history[i].final) = tree_files(fsFiles, history[i].final)

\* C7: a backup run whose timestamp differs from that of an earlier
\* completed backup run has another destination directory, and no step of
\* it changes the tree below the earlier one; after two such runs in a row
\* both directories are there, the earlier one as its run left it.
C7_BackupsAreAdditive == []C7_State /\ [][C7_Step]_vars

\* C7 witness: two completed backups of different seconds, both holding files.
C7_Witness ==
    /\ pc = "Completed"
    /\ Len(history) = 2
    /\ history[1].kind = "backup" /\ history[1].result = "Completed"
    /\ history[2].kind = "backup" /\ history[2].result = "Completed"
    /\ history[1].timestamp # history[2].timestamp
    /\ DOMAIN history[1].files # {}
    /\ tree_files(fsFiles, history[1].final) = history[1].files

\* C8 as the spec states it: in every run the tree below the source root
\* stays as the run found it.
C8_Original ==
    pc # "NotStarted" =>
        /\ tree_dirs(fsDirs, Source) = tree_dirs(start.dirs, Source)
        /\ tree_files(fsFiles, Source) = tree_files(start.files, Source)

\* C9 as the spec states it: total_files is the number of files of the
\* source the copy pass does not exclude, the progress calls count 1, 2, ...
\* up to at most total_files, and reach it when no copy failed.
C9_Original ==
    pc \in {"Copying", "Completed"} =>
        LET eligible ==
                { f \in DOMAIN fsFiles : under(Source, f) /\ ~Pruned(f) /\ f \notin Written }
        IN  /\ total_files = Cardinality(eligible)
            /\ \A i \in 1..Len(progress) :
                    progress[i] = <<i, total_files>> /\ i <= total_files
            /\ (pc = "Completed" /\ progress # <<>> /\ (\A c \in copies : c.copied)
                    => progress[Len(progress)][1] = total_files)

C10_State ==
    pc = "Completed" =>
        /\ copied_files = Cardinality({ c \in copies : c.copied })
        /\ Len(progress) = copied_files
        /\ \A f \in DOMAIN start.files \cap DOMAIN fsFiles :
                (under(Source, f) /\ ~Pruned(f) /\ f \notin Written)
                    => \E c \in copies : c.source = f

C10_Step ==
    (\E c \in copies' \ copies : ~c.copied) =>
        /\ pc' = "Copying"
        /\ copied_files' = copied_files
        /\ progress' = progress
        /\ fsFiles' = fsFiles
        /\ stack' = stack
        /\ files_left' = Tail(files_left)

\* C10: a copy that fails leaves the run in Copying with the rest of the
\* walk as it was, is not counted and not reported to progress_callback;
\* a completed run has attempted every file of the source it does not
\* exclude and returns the number of copies that succeeded.
C10_FailedCopyIsSkipped == []C10_State /\ [][C10_Step]_vars

\* C10 witness: a completed run in which one copy failed and another succeeded.
C10_Witness ==
    /\ pc = "Completed"
    /\ \E c \in copies : ~c.copied
    /\ \E c \in copies : c.copied

\* The runs that have ended, the current one included once it has.
Ended == {"Completed", "Failed", "Cancelled"}

\* C11 as the spec states it: a backup run whose destination root cannot
\* be made ends in Failed with the error dialog, and a run that found no
\* directory at the source root does not end in Completed, so that
\* update_last_backup is called only for backups of a source that was there.
C11_Original ==
    /\ (/\ pc \in Ended
        /\ operation_type = "backup"
        /\ ~can_makedirs(start.dirs, start.files, denied, final_destination))
            => pc = "Failed" /\ outcome = "error"
    /\ (pc = "Completed" => Source \in start.dirs)
    /\ (pc = "Completed" /\ operation_type = "backup" /\ Source \notin start.dirs
            => last_backup = 0)

\* The steps copy_directory takes by itself, and the states in which one of
\* them can be taken: scan in Scanning; in Copying copy_file while files_left
\* holds a file, else walk_dir while the stack holds a directory, else finish.
EngineStep == scan \/ walk_dir \/ copy_file \/ finish

Running == pc \in {"Scanning", "Copying"}

\* copy_directory runs in a thread of its own (backup_thread, deploy_thread)
\* and nothing interrupts it: once the call is past the question, its next
\* step is taken. This is WF_vars(EngineStep), written with Running for
\* ENABLED <<EngineStep>>_vars, together with WF_vars(finish) for the return.
SpecLive ==
    Spec /\ WF_vars(finish) /\ ([]<>(~Running) \/ []<><<EngineStep>>_vars)

C12_Reaches == Running ~> (pc \in {"Completed", "Failed"})

\* C12 as the spec states it: every run reaches Completed or Failed, and
\* no directory the run made itself is listed by the walk.
C12_Original ==
    C12_Reaches /\ [](\A i \in 1..Len(walked) : walked[i] \in start.dirs)

====
